---- MODULE Spec2Model ----
(***************************************************************************)
(* A model of custom/ara/antenna.py: the response-table reader             *)
(* (read_response_data), the ARA antenna (ARAAntenna: construction, the    *)
(* angle interpolation of the response table, receive) and the ARA antenna *)
(* system (ARAAntennaSystem: noise calibration, front end, tunnel diode,   *)
(* trigger).                                                               *)
(*                                                                         *)
(* Numbers.  Python floats are held exactly where the code only scales     *)
(* them (decimal floats [m, e] = m * 10^e in the reader, rationals with an *)
(* explicit denominator in the interpolation) and in fixed point where the *)
(* code divides or takes a root (waveform samples, the calibration).       *)
(***************************************************************************)
EXTENDS Integers, Sequences, FiniteSets, TLC

VARIABLES
    file,      \* the lines of the response file read_response_data is given
    parser,    \* read_response_data's locals and its position in the file
    ctor,      \* ARAAntenna.__init__'s locals and its position
    antenna,   \* the ARAAntenna object's fields
    system,    \* the ARAAntennaSystem object's fields
    args,      \* the (theta, phi) generate_freq_gains is about to be called with
    call       \* the last call made on the objects: operation, inputs, outcome

vars == <<file, parser, ctor, antenna, system, args, call>>

(***************************************************************************)
(* Bounds of the model.                                                    *)
(***************************************************************************)
MaxLines == 3
\* the files read have at most this many lines

(***************************************************************************)
(* Generic helpers.                                                        *)
(***************************************************************************)
Abs(x) == IF x < 0 THEN -x ELSE x

SetMax(S) == CHOOSE x \in S : \A y \in S : y <= x

SetMin(S) == CHOOSE x \in S : \A y \in S : x <= y

Range(s) == {s[i] : i \in 1..Len(s)}

\* Python's int(x) of a quotient n/d with d > 0: truncation toward zero
Trunc(n, d) == IF n >= 0 THEN n \div d ELSE -((-n) \div d)

\* the value of "no call yet"
NoCall == [op |-> "none"]

(***************************************************************************)
(* read_response_data (lines 13-47).                                       *)
(*                                                                         *)
(* A line is the sequence of its words (line.split()); the lines of the    *)
(* model have no leading blank, so that line.startswith(p) is a test on    *)
(* the first word.  A word is a string, and Spell gives its characters:    *)
(* float() and int() work on the characters.                               *)
(***************************************************************************)
Spell ==
    [w \in {"freq", "SWR", "Theta", "Phi", "Gain(dB)", "Gain", "Phase(deg)",
            ":", "Hz", "kHz", "MHz", "GHz", "THz",
            "0", "5", "0.0", "0.5", "0.9", "-3.0", "-1.0", "10.0", "30.0",
            "500.0", "1.9"} |->
        CASE w = "freq"       -> <<"f", "r", "e", "q">>
          [] w = "SWR"        -> <<"S", "W", "R">>
          [] w = "Theta"      -> <<"T", "h", "e", "t", "a">>
          [] w = "Phi"        -> <<"P", "h", "i">>
          [] w = "Gain(dB)"   -> <<"G", "a", "i", "n", "(", "d", "B", ")">>
          [] w = "Gain"       -> <<"G", "a", "i", "n">>
          [] w = "Phase(deg)" -> <<"P", "h", "a", "s", "e", "(", "d", "e", "g", ")">>
          [] w = ":"          -> <<":">>
          [] w = "Hz"         -> <<"H", "z">>
          [] w = "kHz"        -> <<"k", "H", "z">>
          [] w = "MHz"        -> <<"M", "H", "z">>
          [] w = "GHz"        -> <<"G", "H", "z">>
          [] w = "THz"        -> <<"T", "H", "z">>
          [] w = "0"          -> <<"0">>
          [] w = "5"          -> <<"5">>
          [] w = "0.0"        -> <<"0", ".", "0">>
          [] w = "0.5"        -> <<"0", ".", "5">>
          [] w = "0.9"        -> <<"0", ".", "9">>
          [] w = "-3.0"       -> <<"-", "3", ".", "0">>
          [] w = "-1.0"       -> <<"-", "1", ".", "0">>
          [] w = "10.0"       -> <<"1", "0", ".", "0">>
          [] w = "30.0"       -> <<"3", "0", ".", "0">>
          [] w = "500.0"      -> <<"5", "0", "0", ".", "0">>
          [] w = "1.9"        -> <<"1", ".", "9">>]

IsDigit(c) == c \in {"0", "1", "2", "3", "4", "5", "6", "7", "8", "9"}

DigitVal(c) ==
    CASE c = "0" -> 0 [] c = "1" -> 1 [] c = "2" -> 2 [] c = "3" -> 3
      [] c = "4" -> 4 [] c = "5" -> 5 [] c = "6" -> 6 [] c = "7" -> 7
      [] c = "8" -> 8 [] c = "9" -> 9

RECURSIVE DigitsVal(_)
DigitsVal(ds) ==
    IF ds = <<>> THEN 0
    ELSE 10 * DigitsVal(SubSeq(ds, 1, Len(ds) - 1)) + DigitVal(ds[Len(ds)])

\* A float is m * 10^e, kept with no trailing zero in m (0 is [0, 0]).
RECURSIVE Norm(_, _)
Norm(m, e) ==
    IF m = 0 THEN [m |-> 0, e |-> 0]
    ELSE IF m % 10 = 0 THEN Norm(m \div 10, e + 1)
    ELSE [m |-> m, e |-> e]

FloatMul(a, b) == Norm(a.m * b.m, a.e + b.e)

\* a numeral's characters without its sign
Unsigned(cs) ==
    IF cs # <<>> /\ cs[1] \in {"-", "+"} THEN Tail(cs) ELSE cs

\* float(word): [ok, val]; not ok is Python's ValueError
ParseFloat(w) ==
    LET cs     == Spell[w]
        body   == Unsigned(cs)
        dots   == {i \in 1..Len(body) : body[i] = "."}
        digits == SelectSeq(body, IsDigit)
        ok     == /\ Cardinality(dots) <= 1
                  /\ digits # <<>>
                  /\ \A i \in 1..Len(body) : IsDigit(body[i]) \/ body[i] = "."
        frac   == IF dots = {} THEN 0 ELSE Len(body) - SetMax(dots)
        sign   == IF cs # <<>> /\ cs[1] = "-" THEN -1 ELSE 1
    IN  IF ok THEN [ok |-> TRUE, val |-> Norm(sign * DigitsVal(digits), -frac)]
        ELSE [ok |-> FALSE, val |-> Norm(0, 0)]

\* int(word): [ok, val]; not ok is Python's ValueError
ParseInt(w) ==
    LET cs   == Spell[w]
        body == Unsigned(cs)
        ok   == body # <<>> /\ \A i \in 1..Len(body) : IsDigit(body[i])
        sign == IF cs # <<>> /\ cs[1] = "-" THEN -1 ELSE 1
    IN  IF ok THEN [ok |-> TRUE, val |-> sign * DigitsVal(body)]
        ELSE [ok |-> FALSE, val |-> 0]

\* line.startswith(p), p given by its characters
StartsWith(words, p) ==
    /\ words # <<>>
    /\ Len(Spell[words[1]]) >= Len(p)
    /\ SubSeq(Spell[words[1]], 1, Len(p)) = p

IsFreqLine(words) == StartsWith(words, <<"f", "r", "e", "q">>)

IsSwrLine(words) == ~IsFreqLine(words) /\ StartsWith(words, <<"S", "W", "R">>)

IsRow(words) ==
    /\ ~IsFreqLine(words)
    /\ ~IsSwrLine(words)
    /\ Len(words) = 5
    /\ words[1] # "Theta"

\* a mutant of UnitScale: MHz scaled like kHz
UnitScaleMegaAsKilo(unit) ==
    CASE unit = "Hz"  -> [ok |-> TRUE, val |-> Norm(1, 0)]
      [] unit = "kHz" -> [ok |-> TRUE, val |-> Norm(1, 3)]
      [] unit = "MHz" -> [ok |-> TRUE, val |-> Norm(1, 3)]
      [] unit = "GHz" -> [ok |-> TRUE, val |-> Norm(1, 9)]
      [] OTHER        -> [ok |-> FALSE, val |-> Norm(1, 0)]

\* lines 24-34: freq = 1, scaled by the unit word; an unknown unit raises
UnitScale(unit) ==
    CASE unit = "Hz"  -> [ok |-> TRUE, val |-> Norm(1, 0)]
      [] unit = "kHz" -> [ok |-> TRUE, val |-> Norm(1, 3)]
      [] unit = "MHz" -> [ok |-> TRUE, val |-> Norm(1, 6)]
      [] unit = "GHz" -> [ok |-> TRUE, val |-> Norm(1, 9)]
      [] OTHER        -> [ok |-> FALSE, val |-> Norm(1, 0)]

\* lines 23-36: the frequency a 'freq' line sets; words[-1] is the unit and
\* words[-2] the number (on a one-word line words[-2] is an IndexError)
FreqOfLine(words) ==
    LET unit == UnitScale(words[Len(words)])
        num  == IF Len(words) >= 2 THEN ParseFloat(words[Len(words) - 1])
                ELSE [ok |-> FALSE, val |-> Norm(0, 0)]
    IN  IF ~unit.ok THEN [ok |-> FALSE, err |-> "ValueError", val |-> Norm(0, 0)]
        ELSE IF Len(words) < 2
             THEN [ok |-> FALSE, err |-> "IndexError", val |-> Norm(0, 0)]
        ELSE IF ~num.ok THEN [ok |-> FALSE, err |-> "ValueError", val |-> Norm(0, 0)]
        ELSE [ok |-> TRUE, err |-> "none", val |-> FloatMul(unit.val, num.val)]

\* lines 40-45: the key's angles and the value of a 5-column row
RowOfLine(words) ==
    LET theta == ParseInt(words[1])
        phi   == ParseInt(words[2])
        db    == ParseFloat(words[3])
        gain  == ParseFloat(words[4])
        phase == ParseFloat(words[5])
    IN  [ok    |-> theta.ok /\ phi.ok /\ db.ok /\ gain.ok /\ phase.ok,
         theta |-> theta.val, phi |-> phi.val,
         value |-> <<gain.val, phase.val>>]

\* The lines the model's files are made of.
FileLines ==
    { <<"freq", "500.0", "MHz">>,
      <<"freq", ":", "0.5", "GHz">>,
      <<"freq", "500.0", "kHz">>,
      <<"freq", "1.9", "THz">>,
      <<"SWR", ":", "1.9">>,
      <<"Theta", "Phi", "Gain(dB)", "Gain", "Phase(deg)">>,
      <<"0", "0", "-3.0", "0.5", "10.0">>,
      <<"0", "0", "-1.0", "0.9", "30.0">>,
      <<"5", "0", "-3.0", "0.5", "10.0">>,
      <<"0", "0", "-3.0", "0.5">>,
      <<>> }

Files == UNION {[1..n -> FileLines] : n \in 0..MaxLines}

\* lines 17-19: data = {}, freqs = set(), freq = 0
ParserStart ==
    [status |-> "reading", pos |-> 1, data |-> <<>>, freqs |-> {},
     freq |-> Norm(0, 0)]

ParserIdle ==
    [status |-> "idle", pos |-> 1, data |-> <<>>, freqs |-> {},
     freq |-> Norm(0, 0)]

\* lines 21-45: one iteration of the loop over the file's lines
ReadLine ==
    /\ parser.status = "reading"
    /\ parser.pos <= Len(file)
    /\ LET words == file[parser.pos]
       IN  IF IsFreqLine(words)
           THEN LET f == FreqOfLine(words)
                IN  IF f.ok
                    THEN parser' = [parser EXCEPT !.pos = @ + 1,
                                                  !.freq = f.val,
                                                  !.freqs = @ \cup {f.val}]
                    ELSE parser' = [parser EXCEPT !.status = f.err]
           ELSE IF IsSwrLine(words)
           THEN IF ParseFloat(words[Len(words)]).ok
                THEN parser' = [parser EXCEPT !.pos = @ + 1]
                ELSE parser' = [parser EXCEPT !.status = "ValueError"]
           ELSE IF Len(words) = 5 /\ words[1] # "Theta"
           THEN LET r == RowOfLine(words)
                IN  IF r.ok
                    THEN parser' =
                           [parser EXCEPT
                              !.pos = @ + 1,
                              !.data = (<<parser.freq, r.theta, r.phi>> :> r.value) @@ @]
                    ELSE parser' = [parser EXCEPT !.status = "ValueError"]
           ELSE parser' = [parser EXCEPT !.pos = @ + 1]
    /\ UNCHANGED <<file, ctor, antenna, system, args, call>>

\* line 47: return data, freqs
ReturnData ==
    /\ parser.status = "reading"
    /\ parser.pos > Len(file)
    /\ parser' = [parser EXCEPT !.status = "returned"]
    /\ UNCHANGED <<file, ctor, antenna, system, args, call>>

(***************************************************************************)
(* Python's None.                                                          *)
(***************************************************************************)
None == [some |-> FALSE]

Some(v) == [some |-> TRUE, val |-> v]

(***************************************************************************)
(* Vectors (numpy arrays of three components).                             *)
(***************************************************************************)
Cross(a, b) ==
    <<a[2] * b[3] - a[3] * b[2], a[3] * b[1] - a[1] * b[3], a[1] * b[2] - a[2] * b[1]>>

Dot(a, b) == a[1] * b[1] + a[2] * b[2] + a[3] * b[3]

ZeroVector == <<0, 0, 0>>

\* the largest r with r * r <= n
ISqrt(n) == CHOOSE r \in 0..n : r * r <= n /\ (r + 1) * (r + 1) > n

RECURSIVE Pow10(_)
Pow10(k) == IF k = 0 THEN 1 ELSE 10 * Pow10(k - 1)

(***************************************************************************)
(* Response tables.  A table is the dict read_response_data returns: a     *)
(* function from <<freq, theta, phi>> to <<gain, phase>>, theta and phi in *)
(* degrees on the 5-degree grid, freq, gain and phase decimal floats.  The *)
(* data files are not part of the source; the model's tables are           *)
(* rectangular grids over [0,180) x [0,360) filled by an arithmetic rule.  *)
(***************************************************************************)
GridThetas == {5 * i : i \in 0..35}

GridPhis == {5 * j : j \in 0..71}

TableFreqs == {Norm(2, 8), Norm(5, 8)}

\* a gain in tenths, between 0 and 12.0, varying with all three coordinates
RuleGain(seed, f, theta, phi) ==
    ((theta \div 5) * (seed + 2) + (phi \div 5) * 3 + f.m * seed) % 121

GridTable(seed) ==
    [k \in TableFreqs \X GridThetas \X GridPhis |->
        <<Norm(RuleGain(seed, k[1], k[2], k[3]), -1), Norm(k[2] + k[3], 0)>>]

VPOL_RESPONSE == GridTable(1)

HPOL_RESPONSE == GridTable(4)

EmptyTable == [k \in {} |-> <<Norm(0, 0), Norm(0, 0)>>]

\* An antenna holds a reference to its table, or None: the model names the
\* table an antenna refers to.
TableRefs == {"VPOL_RESPONSE", "HPOL_RESPONSE", "EMPTY"}

TableOf(ref) ==
    CASE ref = "VPOL_RESPONSE" -> VPOL_RESPONSE
      [] ref = "HPOL_RESPONSE" -> HPOL_RESPONSE
      [] ref = "EMPTY"         -> EmptyTable

\* a gain (a decimal float with at most one decimal) in tenths
GainTenths(g) == g.m * Pow10(g.e + 1)

\* the order in which Python iterates over a set: some order, the same
\* for every iteration over the unchanged set
SetOrder(S) == CHOOSE s \in [1..Cardinality(S) -> S] : Range(s) = S

(***************************************************************************)
(* ARAAntenna.generate_freq_gains (lines 101-134).                         *)
(*                                                                         *)
(* Angles come in as radians, counted in units of pi/360 (half a degree);  *)
(* degrees are held in tenths.  The weights t and u and the gains are      *)
(* rationals [num, den].                                                   *)
(***************************************************************************)
\* np.degrees: x * 180 / pi, here from units of pi/360 rad to tenths of a degree
np_degrees(x) == (x * 180 * 10) \div 360

\* a mutant of PyMod: the remainder takes the sign of the dividend (C's fmod)
FMod(a, n) == IF a >= 0 THEN a % n ELSE -((-a) % n)

\* Python's a % n for n > 0: the result is in [0, n)
PyMod(a, n) == a % n

\* dict lookup: the keys looked up that the table does not hold (KeyError)
MissingKeys(table, keys) == {k \in keys : k \notin DOMAIN table}

\* a mutant of generate_freq_gains_none: an empty table counts as no table
generate_freq_gains_none_or_empty(response_data) ==
    response_data = "None" \/ DOMAIN TableOf(response_data) = {}

\* line 103: self._response_data is None
generate_freq_gains_none(response_data) == response_data = "None"

generate_freq_gains(response_data, response_freqs, theta_rad, phi_rad) ==
    IF generate_freq_gains_none(response_data)
    THEN [raised |-> "none", sentinel |-> TRUE, lookups |-> {},
          freqs |-> <<Norm(1, 0)>>, gains |-> <<[num |-> 1, den |-> 1]>>]
    ELSE
    LET table       == TableOf(response_data)
        theta       == PyMod(np_degrees(theta_rad), 180 * 10)
        phi         == PyMod(np_degrees(phi_rad), 360 * 10)
        theta_under == 5 * Trunc(theta, 5 * 10)
        theta_over  == 5 * (Trunc(theta, 5 * 10) + 1)
        phi_under   == 5 * Trunc(phi, 5 * 10)
        phi_over    == 5 * (Trunc(phi, 5 * 10) + 1)
        t           == [num |-> theta - 10 * theta_under,
                        den |-> 10 * (theta_over - theta_under)]
        u           == [num |-> phi - 10 * phi_under,
                        den |-> 10 * (phi_over - phi_under)]
        theta_wrap  == theta_over % 180
        phi_wrap    == phi_over % 360
        order       == SetOrder(response_freqs.val)
        keys        == [f \in 1..Len(order) |->
                          << <<order[f], theta_under, phi_under>>,
                             <<order[f], theta_wrap, phi_under>>,
                             <<order[f], theta_under, phi_wrap>>,
                             <<order[f], theta_wrap, phi_wrap>> >>]
        lookups     == UNION {Range(keys[f]) : f \in 1..Len(order)}
        corner(f, c) == GainTenths(table[keys[f][c]][1])
        blend(f)    == (t.den - t.num) * (u.den - u.num) * corner(f, 1)
                       + t.num * (u.den - u.num) * corner(f, 2)
                       + (t.den - t.num) * u.num * corner(f, 3)
                       + t.num * u.num * corner(f, 4)
    IN  IF MissingKeys(table, lookups) # {}
        THEN [raised |-> "KeyError", sentinel |-> FALSE, lookups |-> lookups,
              freqs |-> <<>>, gains |-> <<>>, t |-> t, u |-> u]
        ELSE [raised |-> "none", sentinel |-> FALSE, lookups |-> lookups,
              freqs |-> order,
              \* gains in tenths: num / den
              gains |-> [f \in 1..Len(order) |->
                           [num |-> blend(f), den |-> t.den * u.den]],
              corners |-> [f \in 1..Len(order) |->
                             [c \in 1..4 |-> corner(f, c)]],
              t |-> t, u |-> u,
              cell |-> [theta_under |-> theta_under, theta_over |-> theta_wrap,
                        phi_under |-> phi_under, phi_over |-> phi_wrap]]

\* lines 87-92: the frequencies of a table given without them
ResponseFreqs(response_data, response_freqs) ==
    IF ~response_freqs.some /\ response_data # "None"
    THEN Some({k[1] : k \in DOMAIN TableOf(response_data)})
    ELSE response_freqs

(***************************************************************************)
(* Signals.  A waveform is [values, dt, value_type]: samples in tenths of  *)
(* its unit, the sample spacing dt in nanoseconds.                         *)
(***************************************************************************)
SigLen == 4
\* the number of samples of an input waveform

NoiseLen == 2
\* the number of samples of the calibration noise (10001 in the code)

MaxSignals == 2
\* receive is called while the history holds fewer waveforms than this

MaxThreshold == 20
\* the power thresholds are -MaxThreshold, 0 and MaxThreshold

MaxRand == 1
\* np.random.rand draws components in [0, 1): here 0..MaxRand

Signal(values, dt, value_type) ==
    [values |-> values, dt |-> dt, value_type |-> value_type]

\* a pulse of amplitude a in the first sample
Pulse(a) == [i \in 1..SigLen |-> IF i = 1 THEN a ELSE 0]

\* samples alternating between 2.0 and -1.0
Alternating == [i \in 1..SigLen |-> IF i % 2 = 1 THEN 20 ELSE -10]

WaveValues == {Pulse(0), Pulse(10), Pulse(-20), Alternating}

Dts == {10, 20}

ValueTypes == {"voltage", "field", "power"}

\* the waveforms given to the antenna system: voltages of every shape and
\* spacing, and the other value types
InputSignals ==
    {Signal(v, d, "voltage") : v \in WaveValues, d \in Dts}
    \cup {Signal(Alternating, 10, ty) : ty \in ValueTypes}

\* the waveforms given to the antenna: every value type
ReceiveSignals ==
    {Signal(v, 10, ty) : v \in {Pulse(10), Alternating}, ty \in ValueTypes}

(***************************************************************************)
(* ARAAntenna.__init__ (lines 61-92).                                      *)
(***************************************************************************)
Orientations == {<<x, y, z>> : x \in {-1, 0, 1}, y \in {-1, 0, 1}, z \in {-1, 0, 1}}

RandVectors == {<<x, y, z>> : x \in 0..MaxRand, y \in 0..MaxRand, z \in 0..MaxRand}

\* a mutant of LoopCondition: the comparison never holds (as np.array_equal
\* does on arrays of different shapes)
LoopConditionNever(orientation, tmp_vector) == FALSE

\* line 76: the loop goes on while the cross product is (0, 0, 0)
LoopCondition(orientation, tmp_vector) ==
    Cross(orientation, tmp_vector) = ZeroVector

\* lines 64-68: 3e8 / center_frequency / 2, frequencies in MHz, the height
\* in millimetres
EffectiveHeight(center_frequency, effective_height) ==
    IF ~effective_height.some THEN ((300 * 1000) \div center_frequency) \div 2
    ELSE effective_height.val

\* lines 78-92: the fields the constructor leaves.  Antenna.__init__ (pyrex)
\* normalises the axes, sets efficiency to 1 and starts an empty history;
\* the model keeps the axes' directions.  antenna_factor is
\* 1/effective_height in thousandths per metre.
ARAAntenna(orientation, ortho, center_frequency, resistance, effective_height, response_data, response_freqs) ==
    [constructed      |-> TRUE,
     z_axis           |-> orientation,
     x_axis           |-> ortho,
     effective_height |-> EffectiveHeight(center_frequency, effective_height),
     antenna_factor   |-> (1000 * 1000)
                            \div EffectiveHeight(center_frequency, effective_height),
     efficiency       |-> 1,
     resistance       |-> resistance,
     response_data    |-> response_data,
     response_freqs   |-> ResponseFreqs(response_data, response_freqs),
     signals          |-> <<>>]

NoAntenna == [constructed |-> FALSE]

CtorIdle == [pc |-> "idle"]

\* line 77: one more draw of the auxiliary vector
CtorDraw ==
    /\ ctor.pc = "loop"
    /\ LoopCondition(ctor.orientation, ctor.tmp_vector)
    /\ \E v \in RandVectors : ctor' = [ctor EXCEPT !.tmp_vector = v]
    /\ UNCHANGED <<file, parser, antenna, system, args, call>>

\* lines 78-92: the loop is left and the object is set up
CtorFinish ==
    /\ ctor.pc = "loop"
    /\ ~LoopCondition(ctor.orientation, ctor.tmp_vector)
    /\ ctor' = [ctor EXCEPT !.pc = "done"]
    /\ antenna' = ARAAntenna(ctor.orientation,
                             Cross(ctor.orientation, ctor.tmp_vector),
                             500, 100, None, ctor.response_data, None)
    /\ UNCHANGED <<file, parser, system, args, call>>

(***************************************************************************)
(* ARAAntenna.polarization_gain (lines 95-98) on normalize(polarization)   *)
(* (line 155), in hundredths: the dot product of the unit vectors.         *)
(***************************************************************************)
polarization_gain(z_axis, polarization) ==
    LET norms == ISqrt(Dot(z_axis, z_axis) * Dot(polarization, polarization) * 10000)
    IN  Trunc(Dot(z_axis, polarization) * 10000, norms)

(***************************************************************************)
(* ARAAntenna.receive (lines 137-168).  origin is None or the direction    *)
(* as _convert_to_antenna_coordinates (pyrex) gives it, <<theta, phi>>;    *)
(* filter_frequencies (pyrex) is not computed: the copy carries the list   *)
(* of the filters applied to it.                                           *)
(***************************************************************************)
\* a mutant of ReceiveRejects: only undefined value types are rejected
ReceiveRejectsUndefinedOnly(value_type) == value_type = "undefined"

\* lines 159-165: the value types that raise
ReceiveRejects(value_type) == value_type \notin {"voltage", "field"}

\* lines 152-162: signal_factor, in thousandths
signal_factor(ant, signal, polarization) ==
    LET p_gain == IF ~polarization.some THEN 100
                  ELSE polarization_gain(ant.z_axis, polarization.val)
        factor == p_gain * 10 * ant.efficiency
    IN  IF signal.value_type = "field"
        THEN Trunc(factor * 1000, ant.antenna_factor)
        ELSE factor

\* the outcome of receive: what is raised, and the copy to append
receive(ant, signal, origin, polarization) ==
    LET fg == IF origin.some
              THEN generate_freq_gains(ant.response_data, ant.response_freqs,
                                       origin.val[1], origin.val[2])
              ELSE [raised |-> "none"]
        filters == IF origin.some
                   THEN <<[kind |-> "response"],
                          [kind |-> "interp", freqs |-> fg.freqs, gains |-> fg.gains]>>
                   ELSE <<[kind |-> "response"]>>
        factor == signal_factor(ant, signal, polarization)
    IN  IF fg.raised # "none" THEN [raised |-> fg.raised]
        ELSE IF ReceiveRejects(signal.value_type) THEN [raised |-> "ValueError"]
        ELSE [raised |-> "none",
              copy |-> [values     |-> [i \in 1..Len(signal.values) |->
                                          Trunc(signal.values[i] * factor, 1000)],
                        dt         |-> signal.dt,
                        value_type |-> "voltage",
                        filters    |-> filters]]

Receive(signal, origin, polarization) ==
    /\ antenna.constructed
    /\ Len(antenna.signals) < MaxSignals
    /\ LET r == receive(antenna, signal, origin, polarization)
       IN  /\ antenna' = IF r.raised = "none"
                         THEN [antenna EXCEPT !.signals = Append(@, r.copy)]
                         ELSE antenna
           /\ call' = [op |-> "receive", signal |-> signal, origin |-> origin,
                       polarization |-> polarization, raised |-> r.raised,
                       before |-> antenna.signals]
    /\ UNCHANGED <<file, parser, ctor, system, args>>

\* generate_freq_gains called with the angles in args
GenerateFreqGains ==
    /\ antenna.constructed
    /\ call.op = "none"
    /\ call' = [op |-> "generate_freq_gains", theta |-> args[1], phi |-> args[2],
                result |-> generate_freq_gains(antenna.response_data,
                                               antenna.response_freqs,
                                               args[1], args[2])]
    /\ UNCHANGED <<file, parser, ctor, antenna, system, args>>

(***************************************************************************)
(* ARAAntennaSystem (lines 172-280).                                       *)
(***************************************************************************)
RECURSIVE SeqSum(_)
SeqSum(s) == IF s = <<>> THEN 0 ELSE s[1] + SeqSum(Tail(s))

\* np.mean, in the samples' fixed point
Mean(values) == Trunc(SeqSum(values), Len(values))

\* np.sqrt(np.mean(values**2)), in the samples' fixed point
Rms(values) ==
    ISqrt(Trunc(SeqSum([i \in 1..Len(values) |-> values[i] * values[i]]),
                Len(values)))

\* line 250: t_max = 1e-7, in nanoseconds
t_max == 100

\* lines 216-244: _td_fdown1 + _td_fdown2 (+ _td_fup after 18 ns) at
\* 0, 10, ..., 100 ns, in hundredths
TdKernel == <<0, -17, -14, 25, 20, 10, 4, 2, 1, 0, 0>>

\* lines 251-255: the kernel at np.linspace(0, t_max, n_pts + 1)
diode_resp(dt) ==
    LET n_pts == t_max \div dt
    IN  [j \in 1..(n_pts + 1) |-> TdKernel[(((j - 1) * t_max) \div n_pts) \div 10 + 1]]

\* scipy.signal.convolve(a, b, mode='full')
convolve(a, b) ==
    [n \in 1..(Len(a) + Len(b) - 1) |->
        SeqSum([i \in 1..Len(a) |->
                  IF n - i + 1 >= 1 /\ n - i + 1 <= Len(b)
                  THEN a[i] * b[n - i + 1] ELSE 0])]

\* lines 250-262: the first len(times) samples of conv * dt (Signal keeps
\* as many values as it has times)
tunnel_diode_values(values, dt, resistance) ==
    LET power == [i \in 1..Len(values) |-> Trunc(values[i] * values[i], resistance)]
        conv  == convolve(power, diode_resp(dt))
    IN  [i \in 1..Len(values) |-> conv[i] * dt]

\* lines 246-263.  The output is built without a value type: it has the
\* type Signal gives by default.
tunnel_diode(ant, signal) ==
    IF signal.value_type # "voltage" THEN [raised |-> "ValueError"]
    ELSE [raised |-> "none",
          output |-> Signal(tunnel_diode_values(signal.values, signal.dt,
                                                ant.resistance),
                            signal.dt, "default")]

Min2(a, b) == IF a <= b THEN a ELSE b

Max2(a, b) == IF a >= b THEN a ELSE b

\* a mutant of np_clip: only the upper limit is applied
np_clip_upper_only(x, a_min, a_max) == Min2(x, a_max)

\* np.clip: minimum(maximum(x, a_min), a_max)
np_clip(x, a_min, a_max) == Min2(Max2(x, a_min), a_max)

\* lines 265-271
front_end(sys, signal) ==
    Signal([i \in 1..Len(signal.values) |->
              np_clip(signal.values[i] * sys.amplification,
                      -sys.amplifier_clipping, sys.amplifier_clipping)],
           signal.dt, "default")

\* a mutant of trigger_decision: the limits themselves trigger
trigger_decision_inclusive(values, power_mean, power_rms, power_threshold) ==
    LET low_trigger  == power_mean - power_rms * Abs(power_threshold)
        high_trigger == power_mean + power_rms * Abs(power_threshold)
    IN  \/ SetMin(Range(values)) <= low_trigger
        \/ SetMax(Range(values)) >= high_trigger

\* lines 275-280
trigger_decision(values, power_mean, power_rms, power_threshold) ==
    LET low_trigger  == power_mean - power_rms * Abs(power_threshold)
        high_trigger == power_mean + power_rms * Abs(power_threshold)
    IN  \/ SetMin(Range(values)) < low_trigger
        \/ SetMax(Range(values)) > high_trigger

\* a mutant of trigger_input: the front end is applied inside trigger
trigger_input_front_end(sys, signal) ==
    [front_end(sys, signal) EXCEPT !.value_type = signal.value_type]

\* line 274: the waveform trigger hands to tunnel_diode
trigger_input(sys, signal) == signal

\* lines 273-280
trigger(sys, ant, signal) ==
    LET td == tunnel_diode(ant, trigger_input(sys, signal))
    IN  IF td.raised # "none" THEN [raised |-> td.raised]
        ELSE IF ~({"_power_mean", "_power_rms", "power_threshold"} \subseteq sys.attrs)
        THEN [raised |-> "AttributeError"]
        ELSE [raised      |-> "none",
              diode_input |-> trigger_input(sys, signal).values,
              power       |-> td.output.values,
              result      |-> trigger_decision(td.output.values, sys.power_mean,
                                               sys.power_rms, sys.power_threshold)]

\* a mutant of setup_antenna: the calibration is left out
setup_antenna_uncalibrated(sys, long_noise) == sys

\* lines 209-213: the calibration from the noise make_noise (pyrex) returns
setup_antenna(sys, long_noise) ==
    [sys EXCEPT !.power_mean = Mean(long_noise.values),
                !.power_rms  = Rms(long_noise.values),
                !.long_noise = long_noise,
                !.attrs      = @ \cup {"_power_mean", "_power_rms"}]

\* lines 175-190: the fields after __init__; attrs are the attributes set
\* (power_mean, power_rms and power_threshold read 0 until they are),
\* long_noise is the calibration waveform, kept for reference
ARAAntennaSystem(power_threshold, amplification, amplifier_clipping, long_noise) ==
    [setup_antenna([attrs |-> {"amplification", "amplifier_clipping"},
                    amplification |-> amplification,
                    amplifier_clipping |-> amplifier_clipping,
                    power_mean |-> 0, power_rms |-> 0, power_threshold |-> 0,
                    long_noise |-> long_noise],
                   long_noise)
       EXCEPT !.power_threshold = power_threshold,
              !.attrs = @ \cup {"power_threshold"}]

NoSystem == [attrs |-> {}]

FrontEnd(signal) ==
    /\ "amplification" \in system.attrs
    /\ call' = [op |-> "front_end", signal |-> signal,
                output |-> front_end(system, signal)]
    /\ UNCHANGED <<file, parser, ctor, antenna, system, args>>

TunnelDiode(signal) ==
    /\ "amplification" \in system.attrs
    /\ LET td == tunnel_diode(antenna, signal)
       IN  call' = IF td.raised = "none"
                   THEN [op |-> "tunnel_diode", signal |-> signal,
                         raised |-> "none", output |-> td.output]
                   ELSE [op |-> "tunnel_diode", signal |-> signal,
                         raised |-> td.raised]
    /\ UNCHANGED <<file, parser, ctor, antenna, system, args>>

Trigger(signal) ==
    /\ "amplification" \in system.attrs
    /\ call' = [op |-> "trigger", signal |-> signal] @@ trigger(system, antenna, signal)
    /\ UNCHANGED <<file, parser, ctor, antenna, system, args>>

(***************************************************************************)
(* The inputs of the model.                                                *)
(***************************************************************************)
MaxAngleSteps == 45
\* the angles given to generate_freq_gains are this many steps either side of 0

Thresholds == {-MaxThreshold, 0, MaxThreshold}

Amplifications == {1, 2}

Clippings == {10, 30}

NoiseLevels == {-10, 10}

\* what make_noise returns: a voltage waveform
NoiseSignals == {Signal(v, 10, "voltage") : v \in [1..NoiseLen -> NoiseLevels]}

\* directions in antenna coordinates, <<theta, phi>> in units of pi/360
Origins == {None, Some(<<61, -7>>)}

Polarizations == {None, Some(<<1, 0, 1>>)}

\* steps of 3.5 and 4.5 degrees, both signs
Thetas == {7 * k : k \in -MaxAngleSteps..MaxAngleSteps}

Phis == {9 * k : k \in -MaxAngleSteps..MaxAngleSteps}

\* the waveforms receive is given where the history is not what is studied
ProbeSignals ==
    {Signal(Alternating, 10, "voltage"), Signal(Alternating, 10, "power")}

(***************************************************************************)
(* Specifications.                                                         *)
(***************************************************************************)
\* read_response_data on every file
InitParse ==
    /\ file \in Files
    /\ parser = ParserStart
    /\ ctor = CtorIdle
    /\ antenna = NoAntenna
    /\ system = NoSystem
    /\ args = <<0, 0>>
    /\ call = NoCall

NextParse == ReadLine \/ ReturnData

SpecParse == InitParse /\ [][NextParse]_vars

\* ARAAntenna.__init__ from the start of its loop (line 75), then receive
InitCtor ==
    /\ file = <<>>
    /\ parser = ParserIdle
    /\ \E o \in Orientations, r \in {"None", "VPOL_RESPONSE"} :
          ctor = [pc |-> "loop", orientation |-> o, tmp_vector |-> ZeroVector,
                  response_data |-> r]
    /\ antenna = NoAntenna
    /\ system = NoSystem
    /\ args = <<0, 0>>
    /\ call = NoCall

NextCtor ==
    \/ CtorDraw
    \/ CtorFinish
    \/ \E s \in ProbeSignals : Receive(s, None, None)

\* a draw that ends the loop
CtorDrawUseful == CtorDraw /\ ~LoopCondition(ctor.orientation, ctor'.tmp_vector)

\* np.random.rand is fair: a draw that is possible at every turn of the
\* loop is made in the end; and the constructor, once out of the loop, runs on
SpecCtor ==
    InitCtor /\ [][NextCtor]_vars /\ WF_vars(CtorDrawUseful) /\ WF_vars(CtorFinish)

\* a constructed ARAAntenna of an Hpol or Vpol system (orientation (0,0,1))
InitAntenna ==
    /\ file = <<>>
    /\ parser = ParserIdle
    /\ ctor = CtorIdle
    /\ \E r \in {"None", "VPOL_RESPONSE"} :
          antenna = ARAAntenna(<<0, 0, 1>>, <<0, 1, 0>>, 500, 100, None, r, None)
    /\ system = NoSystem
    /\ args = <<0, 0>>
    /\ call = NoCall

NextAntenna ==
    \E s \in ReceiveSignals, o \in Origins, p \in Polarizations : Receive(s, o, p)

SpecAntenna == InitAntenna /\ [][NextAntenna]_vars

\* generate_freq_gains on every table and pair of angles
InitGain ==
    /\ file = <<>>
    /\ parser = ParserIdle
    /\ ctor = CtorIdle
    /\ \E r \in {"None"} \cup TableRefs :
          antenna = ARAAntenna(<<0, 0, 1>>, <<0, 1, 0>>, 500, 100, None, r, None)
    /\ system = NoSystem
    /\ args \in Thetas \X Phis
    /\ call = NoCall

NextGain == GenerateFreqGains

SpecGain == InitGain /\ [][NextGain]_vars

\* a constructed ARAAntennaSystem
InitSystem ==
    /\ file = <<>>
    /\ parser = ParserIdle
    /\ ctor = CtorIdle
    /\ antenna = ARAAntenna(<<0, 0, 1>>, <<0, 1, 0>>, 500, 100, None,
                            "VPOL_RESPONSE", None)
    /\ \E th \in Thresholds, a \in Amplifications, c \in Clippings,
          n \in NoiseSignals :
          system = ARAAntennaSystem(th, a, c, n)
    /\ args = <<0, 0>>
    /\ call = NoCall

NextSystem ==
    \/ \E s \in ProbeSignals : Receive(s, None, None)
    \/ \E s \in InputSignals \cup Range(antenna.signals) : FrontEnd(s)
    \/ \E s \in InputSignals : TunnelDiode(s)
    \/ \E s \in InputSignals : Trigger(s)

SpecSystem == InitSystem /\ [][NextSystem]_vars

(***************************************************************************)
(* read_response_data: what the returned map must be, line by line.        *)
(***************************************************************************)
RowLines == {i \in 1..Len(file) : IsRow(file[i])}

FreqLines == {i \in 1..Len(file) : IsFreqLine(file[i])}

\* the rows that have a 'freq' line somewhere before them
RowsUnderBlock == {i \in RowLines : \E j \in FreqLines : j < i}

\* the frequency of the last 'freq' line before line i, 0 when there is none
FreqInEffect(i) ==
    LET before == {j \in FreqLines : j < i}
    IN  IF before = {} THEN Norm(0, 0) ELSE FreqOfLine(file[SetMax(before)]).val

KeyOfRow(i) ==
    <<FreqInEffect(i), RowOfLine(file[i]).theta, RowOfLine(file[i]).phi>>

\* the map with one entry per key of the rows in `rows`, the last row of a key
\* giving its value
MapOfRows(rows) ==
    [k \in {KeyOfRow(i) : i \in rows} |->
        RowOfLine(file[SetMax({i \in rows : KeyOfRow(i) = k})]).value]

C6_InterpolationWithinCorners ==
    (call.op = "generate_freq_gains" /\ ~call.result.sentinel) =>
        LET r == call.result
        IN  /\ r.raised = "none"
            /\ 0 <= r.t.num /\ r.t.num < r.t.den
            /\ 0 <= r.u.num /\ r.u.num < r.u.den
            /\ Len(r.gains) = Cardinality(antenna.response_freqs.val)
            /\ \A f \in 1..Len(r.gains) :
                  /\ SetMin(Range(r.corners[f])) * r.gains[f].den <= r.gains[f].num
                  /\ r.gains[f].num <= SetMax(Range(r.corners[f])) * r.gains[f].den

\* C6's case: a negative theta and a negative phi, both in the last grid
\* cell (theta_over and phi_over wrapped to 0), strictly inside the cell
C6_Witness ==
    /\ call.op = "generate_freq_gains"
    /\ ~call.result.sentinel
    /\ call.theta < 0 /\ call.phi < 0
    /\ call.result.cell.theta_under = 175 /\ call.result.cell.theta_over = 0
    /\ call.result.cell.phi_under = 355 /\ call.result.cell.phi_over = 0
    /\ call.result.t.num > 0 /\ call.result.u.num > 0
    /\ Len(call.result.gains) = 2

\* the flat unity response: frequencies [1], gains [1]
IsSentinel(r) ==
    /\ r.raised = "none"
    /\ r.freqs = <<Norm(1, 0)>>
    /\ r.gains = <<[num |-> 1, den |-> 1]>>

C1_UnsupportedTypeRejected ==
    (call.op = "receive" /\ call.signal.value_type \notin {"voltage", "field"}) =>
        /\ call.raised = "ValueError"
        /\ antenna.signals = call.before

\* C1's case: a power signal received with an origin and a polarization by
\* an antenna with a table and a history that is not empty
C1_Witness ==
    /\ call.op = "receive"
    /\ call.signal.value_type = "power"
    /\ call.origin.some /\ call.polarization.some
    /\ antenna.response_data # "None"
    /\ call.before # <<>>
    /\ call.raised = "ValueError"

(***************************************************************************)
(* ARAAntennaSystem.                                                       *)
(***************************************************************************)
\* C2: trigger is true exactly when some sample of the tunnel-diode output
\* is strictly below mean - rms*|threshold| or strictly above
\* mean + rms*|threshold|, the same for threshold and -threshold; with mean
\* 0, rms 1.0 and threshold 5 a maximum of 6.2 triggers and samples within
\* [-5.0, 5.0], the limits included, do not.
C2_TriggerOutsideBand ==
    /\ (call.op = "trigger" /\ call.raised = "none") =>
          LET band == system.power_rms *
                        (IF system.power_threshold < 0 THEN -system.power_threshold
                         ELSE system.power_threshold)
              low  == system.power_mean - band
              high == system.power_mean + band
          IN  /\ call.result = (\E i \in 1..Len(call.power) :
                                   call.power[i] < low \/ call.power[i] > high)
              /\ call.result = trigger_decision(call.power, system.power_mean,
                                                system.power_rms,
                                                -system.power_threshold)
    /\ trigger_decision(<<0, 62, -10>>, 0, 10, 5)
    /\ trigger_decision(<<0, 62, -10>>, 0, 10, -5)
    /\ ~trigger_decision(<<-50, 0, 50>>, 0, 10, 5)
    /\ ~trigger_decision(<<-50, 0, 50>>, 0, 10, -5)

\* C2's case: a negative threshold, and a trigger by the maximum alone
C2_Witness ==
    /\ call.op = "trigger"
    /\ call.raised = "none"
    /\ system.power_threshold < 0
    /\ system.power_rms > 0
    /\ call.result
    /\ SetMin(Range(call.power)) >=
          system.power_mean - system.power_rms * Abs(system.power_threshold)

\* C3 as stated: the comparison is made on the tunnel-diode response of the
\* amplified and clipped input.
C3_TriggerAppliesFrontEnd ==
    (call.op = "trigger" /\ call.raised = "none") =>
        call.power = tunnel_diode_values(front_end(system, call.signal).values,
                                         call.signal.dt, antenna.resistance)

\* C3 amended: trigger applies tunnel_diode to its input as given and does
\* not apply front_end; the comparison is made on the tunnel-diode response
\* of the waveform trigger is called with.
C3_TriggerOnInputAsGiven ==
    (call.op = "trigger" /\ call.raised = "none") =>
        /\ call.diode_input = call.signal.values
        /\ call.power = tunnel_diode_values(call.signal.values, call.signal.dt,
                                            antenna.resistance)
        /\ call.result = trigger_decision(call.power, system.power_mean,
                                          system.power_rms, system.power_threshold)

\* C3's case: trigger has answered for a waveform the front end would change
C3_Witness ==
    /\ call.op = "trigger"
    /\ call.raised = "none"
    /\ front_end(system, call.signal).values # call.signal.values
    /\ call.result

\* C4: the cached mean and rms are those of the tunnel-diode response to the
\* calibration noise, not those of the noise itself.
C4_CalibrationOfDiodeOutput ==
    "_power_mean" \in system.attrs =>
        LET response == tunnel_diode_values(system.long_noise.values,
                                            system.long_noise.dt, antenna.resistance)
        IN  /\ system.power_mean = Mean(response)
            /\ system.power_rms = Rms(response)

\* C5: once the system is constructed the calibration mean and rms and the
\* power threshold are set, no receive, front_end, tunnel_diode or trigger
\* changes the mean or the rms, and trigger never finds them missing.
C5_CalibrationPrecedesTrigger ==
    /\ []({"_power_mean", "_power_rms", "power_threshold"} \subseteq system.attrs)
    /\ [](call.op = "trigger" => call.raised # "AttributeError")
    /\ [][/\ system'.power_mean = system.power_mean
          /\ system'.power_rms = system.power_rms
          /\ system.attrs \subseteq system'.attrs]_vars

\* C5's case: trigger has answered after a receive
C5_Witness ==
    /\ call.op = "trigger"
    /\ call.raised = "none"
    /\ antenna.signals # <<>>
    /\ system.power_rms > 0

C10_AuxiliaryLoop ==
    /\ (ctor.pc = "loop" /\ ctor.orientation # ZeroVector) ~> (ctor.pc = "done")
    /\ [](ctor.pc = "done" =>
            /\ Cross(ctor.orientation, ctor.tmp_vector) # ZeroVector
            /\ antenna.x_axis # ZeroVector
            /\ Dot(antenna.x_axis, ctor.orientation) = 0
            /\ antenna.z_axis = ctor.orientation)
    /\ [][ctor.pc = "done" => antenna'.x_axis = antenna.x_axis]_vars

\* C10's case: an antenna constructed for an orientation with all three
\* components set, one negative, that has since received a signal
C10_Witness ==
    /\ ctor.pc = "done"
    /\ ctor.orientation = <<1, -1, 1>>
    /\ antenna.signals # <<>>

====
